---- MODULE Spec2Model ----
(***************************************************************************)
(* Network-breaking information cascade model (christokita/                *)
(* InformationCascades).                                                   *)
(*                                                                         *)
(*   sim_adjusting_network  model/scripts/deprecated/                      *)
(*                          model_networkbreaking_allmethods.py            *)
(*   adjust_tie             same file                                      *)
(*   evaluate_behavior      scripts/cascade_models/cascades/               *)
(*                          evaluate_behavior.py                           *)
(*                                                                         *)
(* Two specifications:                                                     *)
(*   SpecAdj  adjust_tie called again and again on one network, every call *)
(*            with an arbitrary state vector and correctness vector;       *)
(*   SpecSim  the simulation loop of sim_adjusting_network.                *)
(*                                                                         *)
(* Reals are scaled: a threshold th stands for th / Den, a stimulus s for  *)
(* s / Den, so that "stimulus > threshold" is an integer comparison.       *)
(***************************************************************************)
EXTENDS Integers, Sequences, FiniteSets

VARIABLES
    n,                 \* number of individuals (parameter n)
    timesteps,         \* length of the simulation (parameter timesteps)
    thresh_mat,        \* thresholds, seeded once
    type_mat,          \* types (one row per individual), seeded once
    adjacency,         \* the social network, adjacency[i][j] = 1: tie i -> j
    cascade_size,      \* cascade statistics table: the t of its records, as runs
    behavior_data,     \* per individual: the four behaviour counters
    t,                 \* loop variable of "for t in range(timesteps)"
    pc,                \* position of the driver (or of the calling harness)
    stim_sources,      \* this timestep's stimuli
    state_mat,         \* this timestep's behavioural states
    correct_state,     \* this timestep's correctness vector
    steps,             \* the steps executed so far in this timestep
    actives,           \* adjust_tie local: np.where(states == 1)[0]
    individual_active, \* adjust_tie local: the adjuster (array of size <= 1)
    individual_correct,\* adjust_tie local: correct_behavior[individual_active]
    break_tie,         \* adjust_tie local: the neighbour whose tie is broken
    former_individual, \* adjust_tie local: the individual forming a tie
    new_tie,           \* adjust_tie local: the target of the new tie
    outcome            \* how the last adjust_tie call ended

params == <<n, timesteps, thresh_mat, type_mat>>
frame  == <<actives, individual_active, individual_correct, break_tie,
            former_individual, new_tie, outcome>>
driver == <<cascade_size, behavior_data, t, stim_sources, state_mat,
            correct_state, steps>>
vars   == <<params, adjacency, driver, pc, frame>>

----------------------------------------------------------------------------
(* Bounds of the exploration.                                              *)

\* largest population adjust_tie is called on under SpecAdj
MaxN == 3
\* largest population simulated under SpecSim
SimN == 2
\* longest run whose every random stream is explored
MaxSteps == 2
\* a run long enough to leave the early window before entering the late one
LongRun == 10001
\* thresholds are the multiples of 1 / Den in [0, 1]
Den == 2

\* the early / late window of the statistics (line 77)
Window == 5000

Ind == 0 .. (n - 1)

----------------------------------------------------------------------------
(* adjust_tie                                                              *)

RECURSIVE SumOf(_)
\* Python's sum() over an array of indices
SumOf(S) == IF S = {} THEN 0
            ELSE LET x == CHOOSE y \in S : TRUE IN x + SumOf(S \ {x})

\* np.where(states == 1)[0]
Actives(states) == {i \in Ind : states[i] = 1}

\* the guard "if sum(actives) > 0": the sum of the INDICES of the actives
ActivesFound(acts) == SumOf(acts) > 0

IndividualNeighbors_col(network, ia) == {j \in Ind : network[j][ia] = 1}
\* np.where(network[individual_active,:] == 1)[1]
IndividualNeighbors(network, ia) == {j \in Ind : network[ia][j] = 1}

PerceivedIncorrect_all(acts, neighbors) == neighbors
\* [ind for ind in actives if ind in individual_neighbors]
PerceivedIncorrect(acts, neighbors) == {ind \in acts : ind \in neighbors}

Rewires_always(correct) == TRUE
\* "if not individual_correct"
Rewires(correct) == ~correct

BreakTieChoices_all(perceived) == {perceived}
\* np.random.choice(perceived_incorrect, size = 1, replace = False);
\* the empty set of choices stands for the ValueError numpy raises when
\* perceived_incorrect is empty
BreakTieChoices(perceived) == {{b} : b \in perceived}

\* network[rows, cols] = value
SetTies(network, rows, cols, value) ==
    [i \in Ind |-> [j \in Ind |->
        IF i \in rows /\ j \in cols THEN value ELSE network[i][j]]]

PotentialTies_self(network, former) == {j \in Ind : network[former][j] = 0}
PotentialTies_any(network, former) == Ind \ {former}
\* np.where(former_connections == 0)[0], then np.delete(.., == former_individual)
PotentialTies(network, former) ==
    {j \in Ind : network[former][j] = 0} \ {former}

\* np.random.choice(potential_ties, size = 1, replace = False)
NewTieChoices(potential) == {{w} : w \in potential}

\* One call adjust_tie(adjacency, states, correct_behavior). The network is
\* mutated in place, so a call that raises leaves what it wrote so far.
AdjustTie(states, correct_behavior) ==
    LET acts == Actives(states) IN
    /\ actives' = acts
    /\ \/ /\ ~ActivesFound(acts)
          /\ adjacency' = adjacency
          /\ individual_active' = {}
          /\ individual_correct' = {}
          /\ break_tie' = {}
          /\ former_individual' = {}
          /\ new_tie' = {}
          /\ outcome' = "returned"
       \/ /\ ActivesFound(acts)
          /\ \E ia \in acts :
               LET correct   == correct_behavior[ia]
                   neighbors == IndividualNeighbors(adjacency, ia)
                   perceived == PerceivedIncorrect(acts, neighbors)
               IN
               /\ individual_active' = {ia}
               /\ individual_correct' = {correct}
               /\ \/ /\ ~Rewires(correct)
                     /\ adjacency' = adjacency
                     /\ break_tie' = {}
                     /\ former_individual' = {}
                     /\ new_tie' = {}
                     /\ outcome' = "returned"
                  \/ /\ Rewires(correct)
                     /\ BreakTieChoices(perceived) = {}
                     /\ adjacency' = adjacency
                     /\ break_tie' = {}
                     /\ former_individual' = {}
                     /\ new_tie' = {}
                     /\ outcome' = "ValueError"
                  \/ /\ Rewires(correct)
                     /\ \E bt \in BreakTieChoices(perceived), former \in Ind :
                          LET broken    == SetTies(adjacency, {ia}, bt, 0)
                              potential == PotentialTies(broken, former)
                          IN
                          /\ break_tie' = bt
                          /\ former_individual' = {former}
                          /\ outcome' = "returned"
                          /\ \/ /\ potential = {}
                                /\ new_tie' = {}
                                /\ adjacency' = broken
                             \/ /\ potential # {}
                                /\ \E nt \in NewTieChoices(potential) :
                                     /\ new_tie' = nt
                                     /\ adjacency' =
                                          SetTies(broken, {former}, nt, 1)

\* no adjust_tie call is in progress or has been made
NoFrame ==
    /\ actives = {}
    /\ individual_active = {}
    /\ individual_correct = {}
    /\ break_tie = {}
    /\ former_individual = {}
    /\ new_tie = {}
    /\ outcome = "none"

\* the frame of a call that is over is gone
ClearFrame ==
    /\ actives' = {}
    /\ individual_active' = {}
    /\ individual_correct' = {}
    /\ break_tie' = {}
    /\ former_individual' = {}
    /\ new_tie' = {}
    /\ outcome' = "none"

\* the networks seed_social_network may hand over: no self-loops
Networks(m) ==
    {net \in [0 .. (m - 1) -> [0 .. (m - 1) -> {0, 1}]] :
        \A i \in 0 .. (m - 1) : net[i][i] = 0}

----------------------------------------------------------------------------
(* SpecAdj: adjust_tie as a function, called by a harness.                 *)

InitAdj ==
    /\ n \in 1 .. MaxN
    /\ timesteps = 0
    /\ thresh_mat = <<>>
    /\ type_mat = <<>>
    /\ adjacency \in Networks(n)
    /\ cascade_size = <<>>
    /\ behavior_data = <<>>
    /\ t = 0
    /\ pc = "idle"
    /\ stim_sources = <<0, 0>>
    /\ state_mat = <<>>
    /\ correct_state = <<>>
    /\ steps = <<>>
    /\ NoFrame

\* The correctness vectors the harness hands over: everybody correct, or
\* everybody incorrect. adjust_tie reads its correctness vector at the
\* adjuster alone (line 192), so a call with any other vector is the call
\* with the one of these two that agrees with it there.
CorrectnessVectors == {[i \in Ind |-> b] : b \in BOOLEAN}

\* the harness calls adjust_tie with any state and correctness vectors
HarnessCall ==
    /\ pc = "idle"
    /\ \E states \in [Ind -> {0, 1}], correct_behavior \in CorrectnessVectors :
         AdjustTie(states, correct_behavior)
    /\ pc' = IF outcome' = "ValueError" THEN "raised" ELSE "returned"
    /\ UNCHANGED <<params, driver>>

\* the call is over (its frame is gone); the harness goes on with the network
HarnessNext ==
    /\ pc \in {"returned", "raised"}
    /\ pc' = "idle"
    /\ ClearFrame
    /\ UNCHANGED <<params, adjacency, driver>>

NextAdj == HarnessCall \/ HarnessNext

SpecAdj == InitAdj /\ [][NextAdj]_vars

----------------------------------------------------------------------------
(* evaluate_behavior                                                       *)

\* np.dot(types, np.transpose(stimuli)), entry of individual i
TrueStim(types, stimuli, i) ==
    types[i][1] * stimuli[1] + types[i][2] * stimuli[2]

CorrectBehavior_in(types, stimuli, thresholds) ==
    [i \in Ind |-> TrueStim(types, stimuli, i) < thresholds[i]]
\* correct_behavior = true_stim > thresholds
CorrectBehavior(types, stimuli, thresholds) ==
    [i \in Ind |-> TrueStim(types, stimuli, i) > thresholds[i]]

\* (states == 1) & correct_behavior
TruePositive(states, correct_behavior, i) ==
    states[i] = 1 /\ correct_behavior[i]

TrueNegative_and(states, correct_behavior, i) ==
    states[i] = 0 /\ correct_behavior[i]
\* (states == 0) & ~correct_behavior
TrueNegative(states, correct_behavior, i) ==
    states[i] = 0 /\ ~correct_behavior[i]

\* (states == 1) & ~correct_behavior
FalsePositive(states, correct_behavior, i) ==
    states[i] = 1 /\ ~correct_behavior[i]

\* (states == 0) & correct_behavior
FalseNegative(states, correct_behavior, i) ==
    states[i] = 0 /\ correct_behavior[i]

\* a boolean added to a number
AsInt(b) == IF b THEN 1 ELSE 0

\* behavior_df after the four column updates
UpdatedBehavior(behavior_df, states, correct_behavior) ==
    [i \in Ind |->
        [true_positive  |-> behavior_df[i].true_positive
                              + AsInt(TruePositive(states, correct_behavior, i)),
         true_negative  |-> behavior_df[i].true_negative
                              + AsInt(TrueNegative(states, correct_behavior, i)),
         false_positive |-> behavior_df[i].false_positive
                              + AsInt(FalsePositive(states, correct_behavior, i)),
         false_negative |-> behavior_df[i].false_negative
                              + AsInt(FalseNegative(states, correct_behavior, i))]]

----------------------------------------------------------------------------
(* The collaborators of the loop, after their contracts.                   *)

\* thresholds of seed_thresholds(n, lower = 0, upper = 1), in units of 1 / Den
ThreshValues == 0 .. Den

\* a type is the row of one information source
TypeValues == {<<1, 0>>, <<0, 1>>}

\* stimuli, in units of 1 / Den: one no threshold lies below, one the
\* threshold 0 alone lies below, one every threshold lies below
StimValues == {0, 1, Den + 1}

\* Runs longer than MaxSteps are followed along one random stream, in which
\* nobody samples: the behaviour counters depend on the whole history of a
\* run, so the streams of a long run cannot all be followed.
StimulusDraws ==
    IF timesteps > MaxSteps THEN {<<0, 0>>} ELSE StimValues \X StimValues

SamplerDraws == IF timesteps > MaxSteps THEN {{}} ELSE SUBSET Ind

\* simulate_stim_sampling: the samplers whose type-weighted stimulus exceeds
\* their threshold are active
SampledStates(stimuli, sampling) ==
    [i \in Ind |->
        IF i \in sampling /\ TrueStim(type_mat, stimuli, i) > thresh_mat[i]
        THEN 1 ELSE 0]

\* one pass of the cascade: an inactive individual turns on when the share
\* of its neighbours that are active exceeds its threshold
CascadePass(network, states, thresholds) ==
    [i \in Ind |->
        LET degree == Cardinality({j \in Ind : network[i][j] = 1})
            active == Cardinality({j \in Ind : network[i][j] = 1 /\ states[j] = 1})
        IN IF states[i] = 1 \/ (degree > 0 /\ active * Den > thresholds[i] * degree)
           THEN 1 ELSE 0]

RECURSIVE SimulateCascade(_, _, _)
\* simulate_cascade: passes until one changes nothing
SimulateCascade(network, states, thresholds) ==
    LET next == CascadePass(network, states, thresholds) IN
    IF next = states THEN states
    ELSE SimulateCascade(network, next, thresholds)

\* get_cascade_stats appends one record for timestep step. The table is kept
\* as the runs of consecutive timesteps of its records, in the order of the
\* records: <<[from |-> 0, to |-> 2], [from |-> 7, to |-> 7]>> is the table
\* of the records of t = 0, 1, 2, 7.
AppendRecord(table, step) ==
    IF table # <<>> /\ table[Len(table)].to = step - 1
    THEN [table EXCEPT ![Len(table)].to = step]
    ELSE Append(table, [from |-> step, to |-> step])

InWindow_and(step, total) == step < Window /\ step >= total - Window
\* "if (t < 5000 or t >= timesteps - 5000)"
InWindow(step, total) == step < Window \/ step >= total - Window

----------------------------------------------------------------------------
(* SpecSim: sim_adjusting_network.                                         *)

InitSim ==
    /\ n \in 1 .. SimN
    /\ timesteps \in (0 .. MaxSteps) \cup (IF n = 1 THEN {LongRun} ELSE {})
    /\ thresh_mat \in [Ind -> ThreshValues]
    /\ type_mat \in [Ind -> TypeValues]
    /\ adjacency \in Networks(n)
    /\ cascade_size = <<>>
    /\ behavior_data = [i \in Ind |-> [true_positive |-> 0, false_negative |-> 0,
                                       true_negative |-> 0, false_positive |-> 0]]
    /\ t = 0
    /\ pc = IF timesteps > 0 THEN "sample" ELSE "assess"
    /\ stim_sources = <<>>
    /\ state_mat = <<>>
    /\ correct_state = <<>>
    /\ steps = <<>>
    /\ NoFrame

\* cs.simulate_stim_sampling(...)
Sample ==
    /\ pc = "sample"
    /\ \E stimuli \in StimulusDraws, sampling \in SamplerDraws :
         /\ stim_sources' = stimuli
         /\ state_mat' = SampledStates(stimuli, sampling)
    /\ steps' = <<"sample">>
    /\ pc' = "cascade"
    /\ ClearFrame
    /\ UNCHANGED <<params, adjacency, cascade_size, behavior_data, t, correct_state>>

\* cs.simulate_cascade(network = adjacency, states = state_mat, ...)
Cascade ==
    /\ pc = "cascade"
    /\ state_mat' = SimulateCascade(adjacency, state_mat, thresh_mat)
    /\ steps' = Append(steps, "cascade")
    /\ pc' = "stats"
    /\ UNCHANGED <<params, adjacency, cascade_size, behavior_data, t,
                   stim_sources, correct_state, frame>>

\* "if (t < 5000 or t >= timesteps - 5000): cascade_size = cs.get_cascade_stats(...)"
CollectStats ==
    /\ pc = "stats"
    /\ \/ /\ InWindow(t, timesteps)
          /\ cascade_size' = AppendRecord(cascade_size, t)
          /\ steps' = Append(steps, "stats")
       \/ /\ ~InWindow(t, timesteps)
          /\ UNCHANGED <<cascade_size, steps>>
    /\ pc' = "evaluate"
    /\ UNCHANGED <<params, adjacency, behavior_data, t, stim_sources, state_mat,
                   correct_state, frame>>

\* correct_state, behavior_data = cs.evaluate_behavior(...)
Evaluate ==
    /\ pc = "evaluate"
    /\ LET correct_behavior == CorrectBehavior(type_mat, stim_sources, thresh_mat) IN
         /\ behavior_data' = UpdatedBehavior(behavior_data, state_mat, correct_behavior)
         /\ correct_state' = correct_behavior
    /\ steps' = Append(steps, "evaluate")
    /\ pc' = "adjust"
    /\ UNCHANGED <<params, adjacency, cascade_size, t, stim_sources, state_mat, frame>>

\* adjacency = adjust_tie(network = adjacency, states = state_mat,
\* correct_behavior = correct_state), then the next iteration of the loop or
\* the end of it; nothing in the loop catches what adjust_tie raises
Adjust ==
    /\ pc = "adjust"
    /\ AdjustTie(state_mat, correct_state)
    /\ steps' = Append(steps, "adjust")
    /\ IF outcome' = "ValueError"
       THEN pc' = "aborted" /\ t' = t
       ELSE /\ t' = t + 1
            /\ pc' = IF t + 1 < timesteps THEN "sample" ELSE "assess"
    /\ UNCHANGED <<params, cascade_size, behavior_data, stim_sources, state_mat,
                   correct_state>>

\* cs.assess_fitness(...) on the final network, then the files are saved
AssessAndSave ==
    /\ pc = "assess"
    /\ pc' = "done"
    /\ UNCHANGED <<params, adjacency, driver, frame>>

NextSim == Sample \/ Cascade \/ CollectStats \/ Evaluate \/ Adjust \/ AssessAndSave

SpecSim == InitSim /\ [][NextSim]_vars

----------------------------------------------------------------------------
(* Properties of adjust_tie (SpecAdj).                                     *)

\* a step that is one whole call of adjust_tie
AdjustStep ==
    \/ pc = "idle" /\ pc' # "idle"
    \/ pc = "adjust" /\ pc' # "adjust"

\* the ties of a network, as pairs
Ties(network) == {p \in Ind \X Ind : network[p[1]][p[2]] = 1}

OutDegree(network, i) == Cardinality({j \in Ind : network[i][j] = 1})

\* C1: an active, incorrect adjuster without an active neighbour makes the
\* call return normally with the network unchanged (no error is raised).
C1_NoActiveNeighbourIsNoOp ==
    [][(/\ AdjustStep
        /\ \E a \in Ind :
             /\ individual_active' = {a}
             /\ individual_correct' = {FALSE}
             /\ {j \in actives' : adjacency[a][j] = 1} = {})
       => (outcome' = "returned" /\ adjacency' = adjacency)]_vars

\* C2: whenever the state vector handed to adjust_tie holds an active
\* individual, an adjuster was drawn from the active individuals.
C2_AdjusterWheneverActive ==
    (outcome # "none" /\ actives # {})
        => (individual_active # {} /\ individual_active \subseteq actives)

\* C3: the network never holds a tie from an individual to itself.
C3_NoSelfLoops == \A i \in Ind : adjacency[i][i] = 0

\* C3 witness: a call has added a tie, for a former that was left with a
\* single candidate besides itself
C3_Witness ==
    /\ outcome = "returned"
    /\ new_tie # {}
    /\ \E f \in Ind : former_individual = {f} /\ OutDegree(adjacency, f) = n - 1

\* C4: one call removes at most one tie and adds at most one tie, and the
\* out-degree of every individual changes by at most 1 either way.
C4_DegreeChangeAtMostOne ==
    [][/\ Cardinality(Ties(adjacency) \ Ties(adjacency')) <= 1
       /\ Cardinality(Ties(adjacency') \ Ties(adjacency)) <= 1
       /\ Cardinality(break_tie') <= 1
       /\ Cardinality(new_tie') <= 1
       /\ \A i \in Ind :
            OutDegree(adjacency', i) - OutDegree(adjacency, i) \in {-1, 0, 1}]_vars

\* C4 witness: the adjuster was also the former, one tie went and another came
C4_Witness ==
    /\ outcome = "returned"
    /\ individual_active # {}
    /\ individual_active = former_individual
    /\ break_tie # {}
    /\ new_tie # {}
    /\ new_tie # break_tie

\* C7: a call whose adjuster behaved correctly leaves the network as it was.
C7_CorrectAdjusterNoChange ==
    [][(AdjustStep /\ individual_correct' = {TRUE})
         => adjacency' = adjacency]_vars

\* C7 witness: a correct adjuster with an active neighbour (a tie it could
\* have broken) and the call returned
C7_Witness ==
    /\ outcome = "returned"
    /\ individual_correct = {TRUE}
    /\ \E a \in Ind :
         /\ individual_active = {a}
         /\ \E j \in actives : adjacency[a][j] = 1

\* C8: a tie is added only after one was removed in the same call; the tie
\* removed is an existing tie from the adjuster to an active individual; the
\* tie added goes from the former to another individual the former is not
\* tied to once the removal is done.
C8_BreakThenForm ==
    [][AdjustStep =>
        /\ new_tie' # {} => break_tie' # {}
        /\ \A b \in break_tie' :
             \E a \in Ind :
                /\ individual_active' = {a}
                /\ a \in actives'
                /\ adjacency[a][b] = 1
                /\ b \in actives'
        /\ \A w \in new_tie' :
             \E f \in Ind, a \in Ind, b \in Ind :
                /\ former_individual' = {f}
                /\ individual_active' = {a}
                /\ break_tie' = {b}
                /\ w # f
                /\ (adjacency[f][w] = 0 \/ <<f, w>> = <<a, b>>)
                /\ Ties(adjacency') = (Ties(adjacency) \ {<<a, b>>}) \cup {<<f, w>>}
        /\ (break_tie' # {} /\ new_tie' = {}) =>
             \E a \in Ind, b \in Ind :
                /\ individual_active' = {a}
                /\ break_tie' = {b}
                /\ Ties(adjacency') = Ties(adjacency) \ {<<a, b>>}
        /\ break_tie' = {} => adjacency' = adjacency]_vars

\* C8 witness: a tie was removed and a tie was added by an inactive former
C8_Witness ==
    /\ outcome = "returned"
    /\ break_tie # {}
    /\ new_tie # {}
    /\ former_individual \cap actives = {}

\* C10: no step makes the number of ties larger; a call leaves it as it was
\* or makes it smaller by one, and smaller only when a tie was removed and
\* the former was already tied to all the others.
C10_TieCountNeverGrows ==
    [][\/ Cardinality(Ties(adjacency')) = Cardinality(Ties(adjacency))
       \/ /\ Cardinality(Ties(adjacency')) = Cardinality(Ties(adjacency)) - 1
          /\ AdjustStep
          /\ break_tie' # {}
          /\ new_tie' = {}
          /\ \E f \in Ind :
               /\ former_individual' = {f}
               /\ \A j \in Ind \ {f} : adjacency'[f][j] = 1]_vars

\* C10 witness: a call that removed a tie and added none
C10_Witness ==
    /\ outcome = "returned"
    /\ break_tie # {}
    /\ new_tie = {}

----------------------------------------------------------------------------
(* Properties of the simulation loop (SpecSim).                            *)

\* the ground truth of individual i in this timestep: (type . stimulus) > threshold
GroundTruth(i) ==
    type_mat[i][1] * stim_sources[1] + type_mat[i][2] * stim_sources[2]
        > thresh_mat[i]

\* the four counters of individual i, summed
CounterSum(i) ==
    behavior_data[i].true_positive + behavior_data[i].true_negative
        + behavior_data[i].false_positive + behavior_data[i].false_negative

\* the number of evaluate_behavior calls made so far
Evaluations == IF pc = "adjust" THEN t + 1 ELSE t

\* C5: no timestep aborts the run: the loop runs all its iterations and the
\* run goes on to the assessment and the saving of the files; a timestep
\* without an active individual, or whose incorrect adjuster has no active
\* neighbour, leaves the network as it was.
C5_RunCompletes ==
    /\ [](/\ pc # "aborted"
          /\ pc \in {"assess", "done"} => t = timesteps
          /\ pc # "done" => ENABLED NextSim)
    /\ [][(/\ pc = "adjust"
           /\ \/ {i \in Ind : state_mat[i] = 1} = {}
              \/ \E a \in Ind :
                   /\ individual_active' = {a}
                   /\ ~correct_state[a]
                   /\ {j \in Ind : state_mat[j] = 1 /\ adjacency[a][j] = 1} = {})
          => (adjacency' = adjacency /\ outcome' = "returned")]_vars

\* C5 witness: a run of two timesteps is over; an individual was active and
\* incorrect in the first and nobody was active in the second
C5_Witness ==
    /\ pc = "done"
    /\ timesteps = 2
    /\ t = 2
    /\ actives = {}
    /\ outcome = "returned"
    /\ \E i \in Ind : behavior_data[i].false_positive = 1

\* C6: every evaluation adds 1 to exactly one counter of every individual,
\* the one of its state crossed with its ground truth; the four counters of
\* an individual sum to the number of evaluations, and no counter decreases.
C6_CountersPartition ==
    /\ [](\A i \in Ind : CounterSum(i) = Evaluations)
    /\ [][pc = "evaluate" =>
            \A i \in Ind :
               /\ state_mat[i] \in {0, 1}
               /\ behavior_data'[i].true_positive - behavior_data[i].true_positive
                    = (IF state_mat[i] = 1 /\ GroundTruth(i) THEN 1 ELSE 0)
               /\ behavior_data'[i].true_negative - behavior_data[i].true_negative
                    = (IF state_mat[i] = 0 /\ ~GroundTruth(i) THEN 1 ELSE 0)
               /\ behavior_data'[i].false_positive - behavior_data[i].false_positive
                    = (IF state_mat[i] = 1 /\ ~GroundTruth(i) THEN 1 ELSE 0)
               /\ behavior_data'[i].false_negative - behavior_data[i].false_negative
                    = (IF state_mat[i] = 0 /\ GroundTruth(i) THEN 1 ELSE 0)]_vars
    /\ [][\A i \in Ind :
            /\ behavior_data'[i].true_positive >= behavior_data[i].true_positive
            /\ behavior_data'[i].true_negative >= behavior_data[i].true_negative
            /\ behavior_data'[i].false_positive >= behavior_data[i].false_positive
            /\ behavior_data'[i].false_negative >= behavior_data[i].false_negative]_vars

\* C6 witness: after two timesteps an individual was a false positive once
\* and a true negative once, another a false negative once
C6_Witness ==
    /\ pc = "done"
    /\ t = 2
    /\ \E i \in Ind, j \in Ind :
         /\ behavior_data[i].false_positive = 1
         /\ behavior_data[i].true_negative = 1
         /\ behavior_data[j].false_negative >= 1

\* the number of records of timestep step in the table
RecordsOf(table, step) ==
    Cardinality({k \in 1 .. Len(table) : table[k].from <= step /\ step <= table[k].to})

RECURSIVE RecordsIn(_)
\* the number of records in the table
RecordsIn(table) ==
    IF table = <<>> THEN 0
    ELSE table[Len(table)].to - table[Len(table)].from + 1
           + RecordsIn(SubSeq(table, 1, Len(table) - 1))

\* the number of timesteps before timestep step that lie in a window
InWindowBefore(step) ==
    LET early == IF step < 5000 THEN step ELSE 5000
        late  == IF timesteps - 5000 > 5000 THEN timesteps - 5000 ELSE 5000
    IN early + (IF step > late THEN step - late ELSE 0)

\* the steps of timestep step, in the order of the loop
StepsOf(step) ==
    <<"sample", "cascade">>
        \o (IF step < 5000 \/ step >= timesteps - 5000 THEN <<"stats">> ELSE <<>>)
        \o <<"evaluate", "adjust">>

\* C9: the steps of a timestep run in the order sample, cascade, statistics
\* (in the early and late windows alone), evaluate, adjust; adjust_tie gets
\* the states the cascade of this timestep ended in and the correctness
\* vector of this timestep; the network is not touched between the cascade
\* and adjust_tie; every timestep of a window adds exactly one record.
C9_StepOrder ==
    /\ [](/\ pc = "sample" => (IF t = 0 THEN steps = <<>> ELSE steps = StepsOf(t - 1))
          /\ pc = "cascade" => steps = SubSeq(StepsOf(t), 1, 1)
          /\ pc = "stats" => steps = SubSeq(StepsOf(t), 1, 2)
          /\ pc = "evaluate" => steps = SubSeq(StepsOf(t), 1, Len(StepsOf(t)) - 2)
          /\ pc = "adjust" => steps = SubSeq(StepsOf(t), 1, Len(StepsOf(t)) - 1)
          /\ (pc \in {"assess", "done"} /\ t > 0) => steps = StepsOf(t - 1))
    /\ [][pc = "adjust" =>
            /\ actives' = {i \in Ind : state_mat[i] = 1}
            /\ state_mat = SimulateCascade(adjacency, state_mat, thresh_mat)
            /\ \A i \in Ind : correct_state[i] = GroundTruth(i)
            /\ \A a \in individual_active' : individual_correct' = {correct_state[a]}]_vars
    /\ [][(pc \in {"cascade", "stats", "evaluate"}) => adjacency' = adjacency]_vars
    /\ [](RecordsIn(cascade_size) = InWindowBefore(IF pc \in {"evaluate", "adjust"}
                                                   THEN t + 1 ELSE t))
    /\ [][IF pc = "stats" /\ (t < 5000 \/ t >= timesteps - 5000)
          THEN /\ RecordsOf(cascade_size, t) = 0
               /\ RecordsOf(cascade_size', t) = 1
               /\ RecordsIn(cascade_size') = RecordsIn(cascade_size) + 1
          ELSE cascade_size' = cascade_size]_vars

\* C9 witness: a run longer than the two windows together is over, and the
\* table holds one record for every timestep of the windows and none for the
\* timesteps between them
C9_Witness ==
    /\ pc = "done"
    /\ timesteps > 10000
    /\ RecordsIn(cascade_size) = 10000
    /\ RecordsOf(cascade_size, 4999) = 1
    /\ RecordsOf(cascade_size, 5000) = 0
    /\ RecordsOf(cascade_size, timesteps - 5000) = 1

====
